---- MODULE Spec2Model ----
(***************************************************************************)
(* The contact form of the Contact page: the four text fields (formData),  *)
(* the per-field validation messages (errors), the field-edit handler,     *)
(* the validator and the submit handler, together with the toast sink the  *)
(* submit handler writes to.                                               *)
(*                                                                         *)
(* A JavaScript string is modelled as a sequence of one-character strings, *)
(* so that trim() and the regular expression test are computed character   *)
(* by character.  Every handler runs to completion inside one browser      *)
(* event, so each handler is one atomic action.                            *)
(***************************************************************************)
EXTENDS Naturals, Sequences, FiniteSets

VARIABLES
  formData,      \* the four field values
  errors,        \* the messages shown, by field
  toasts,        \* what toast.success has been called with, in order
  last,          \* the event that led here
  submitErrors,  \* newErrors of the latest submit
  successes      \* how many submits found the form valid

vars == <<formData, errors, toasts, last, submitErrors, successes>>

----------------------------------------------------------------------------
(* Bounds of the model *)

\* longest e-mail value enumerated by SpecEmail
MaxEmailLen == 7
\* longest name / subject / message value enumerated by SpecValidate
MaxTextLen == 2
\* number of successful submissions followed by Spec
MaxToasts == 2

----------------------------------------------------------------------------
(* Strings *)

\* the characters e-mail values are built from
EmailChars == {" ", "a", "@", "."}
\* the characters the other fields' values are built from
TextChars == {" ", "a"}

RECURSIVE Strings(_, _)
\* all strings over chars of length at most n
Strings(chars, n) ==
  IF n = 0 THEN {<<>>}
  ELSE LET shorter == Strings(chars, n - 1)
       IN  shorter \cup {Append(s, c) : s \in {t \in shorter : Len(t) = n - 1}, c \in chars}

\* the white space class shared by String.prototype.trim and \s / \S
IsSpace(c) == c = " "

RECURSIVE trimStart(_)
trimStart(s) ==
  IF s = <<>> THEN s
  ELSE IF IsSpace(Head(s)) THEN trimStart(Tail(s)) ELSE s

RECURSIVE trimEnd(_)
trimEnd(s) ==
  IF s = <<>> THEN s
  ELSE IF IsSpace(s[Len(s)]) THEN trimEnd(SubSeq(s, 1, Len(s) - 1)) ELSE s

\* String.prototype.trim
trim(s) == trimEnd(trimStart(s))

RECURSIVE NonSpaceRun(_, _)
\* how many consecutive \S characters s has from position i on
NonSpaceRun(s, i) ==
  IF i > Len(s) THEN 0
  ELSE IF IsSpace(s[i]) THEN 0 ELSE 1 + NonSpaceRun(s, i + 1)

\* /\S+@\S+\.\S+/ matched with its first character at position i: each \S+
\* takes between one character and its whole run (the engine backtracks from
\* the longest), and the literal must follow
MatchAt(s, i) ==
  \E a \in 1..NonSpaceRun(s, i) :
    /\ i + a <= Len(s)
    /\ s[i + a] = "@"
    /\ \E b \in 1..NonSpaceRun(s, i + a + 1) :
         /\ i + a + 1 + b <= Len(s)
         /\ s[i + a + 1 + b] = "."
         /\ NonSpaceRun(s, i + a + b + 2) >= 1

\* a mutant of emailRegexTest: the pattern anchored at both ends, /^\S+@\S+\.\S+$/
emailRegexAnchored(s) ==
  /\ MatchAt(s, 1)
  /\ NonSpaceRun(s, 1) = Len(s)

\* /\S+@\S+\.\S+/.test(s): an unanchored search, tried at every start position
emailRegexTest(s) == \E i \in 1..Len(s) : MatchAt(s, i)

----------------------------------------------------------------------------
(* The form *)

Fields == {"name", "email", "subject", "message"}

NameRequired == "Name is required"
EmailRequired == "Email is required"
EmailNotValid == "Email is not valid"
SubjectRequired == "Subject is required"
MessageRequired == "Message is required"
SuccessMessage == "Thank you for your message! We will get back to you soon."

\* the value useState gives formData, and the value the form is reset to
EmptyForm == [name |-> <<>>, email |-> <<>>, subject |-> <<>>, message |-> <<>>]

\* the object {} : no field has a message
EmptyErrors == [f \in {} |-> ""]

\* newErrors[k] = v
Put(e, k, v) == [f \in (DOMAIN e) \cup {k} |-> IF f = k THEN v ELSE e[f]]

\* delete newErrors[k]
Delete(e, k) == [f \in (DOMAIN e) \ {k} |-> e[f]]

\* a mutant of validateForm: the checks stop at the first failing field
validateFormShortCircuit(fd) ==
  LET e == IF trim(fd.name) = <<>> THEN Put(EmptyErrors, "name", NameRequired)
           ELSE IF trim(fd.email) = <<>> THEN Put(EmptyErrors, "email", EmailRequired)
           ELSE IF ~emailRegexTest(fd.email) THEN Put(EmptyErrors, "email", EmailNotValid)
           ELSE IF trim(fd.subject) = <<>> THEN Put(EmptyErrors, "subject", SubjectRequired)
           ELSE IF trim(fd.message) = <<>> THEN Put(EmptyErrors, "message", MessageRequired)
           ELSE EmptyErrors
  IN  [newErrors |-> e, result |-> (DOMAIN e = {})]

\* a mutant of validateForm: the format of the e-mail is tested before its presence
validateFormFormatFirst(fd) ==
  LET e0 == EmptyErrors
      e1 == IF trim(fd.name) = <<>> THEN Put(e0, "name", NameRequired) ELSE e0
      e2 == IF ~emailRegexTest(fd.email) THEN Put(e1, "email", EmailNotValid)
            ELSE IF trim(fd.email) = <<>> THEN Put(e1, "email", EmailRequired)
            ELSE e1
      e3 == IF trim(fd.subject) = <<>> THEN Put(e2, "subject", SubjectRequired) ELSE e2
      e4 == IF trim(fd.message) = <<>> THEN Put(e3, "message", MessageRequired) ELSE e3
  IN  [newErrors |-> e4, result |-> (DOMAIN e4 = {})]

\* validateForm: newErrors is what it hands to setErrors, result is what it returns
validateForm(fd) ==
  LET e0 == EmptyErrors
      e1 == IF trim(fd.name) = <<>> THEN Put(e0, "name", NameRequired) ELSE e0
      e2 == IF trim(fd.email) = <<>> THEN Put(e1, "email", EmailRequired)
            ELSE IF ~emailRegexTest(fd.email) THEN Put(e1, "email", EmailNotValid)
            ELSE e1
      e3 == IF trim(fd.subject) = <<>> THEN Put(e2, "subject", SubjectRequired) ELSE e2
      e4 == IF trim(fd.message) = <<>> THEN Put(e3, "message", MessageRequired) ELSE e3
  IN  [newErrors |-> e4, result |-> (DOMAIN e4 = {})]

----------------------------------------------------------------------------
(* The handlers, as functions of the component state *)

\* a mutant of handleChange: the edited field's message is left in place
handleChangeKeepError(st, name, value) ==
  [st EXCEPT !.formData = [st.formData EXCEPT ![name] = value]]

\* a mutant of handleChange: every edit validates the form again
handleChangeRevalidate(st, name, value) ==
  LET fd == [st.formData EXCEPT ![name] = value]
  IN  [st EXCEPT !.formData = fd, !.errors = validateForm(fd).newErrors]

\* handleChange: e.target.name is name, e.target.value is value
handleChange(st, name, value) ==
  [st EXCEPT !.formData = [st.formData EXCEPT ![name] = value],
             !.errors = IF name \in DOMAIN st.errors /\ st.errors[name] # ""
                        THEN Delete(st.errors, name)
                        ELSE st.errors]

\* a mutant of handleSubmit: the form is not reset after the toast
handleSubmitNoReset(st) ==
  LET v == validateForm(st.formData)
  IN  IF v.result
      THEN [formData |-> st.formData,
            errors   |-> v.newErrors,
            toasts   |-> Append(st.toasts, SuccessMessage)]
      ELSE [st EXCEPT !.errors = v.newErrors]

\* a mutant of handleSubmit: the form is reset whether or not it is valid
handleSubmitResetAlways(st) ==
  LET v == validateForm(st.formData)
  IN  IF v.result
      THEN [formData |-> EmptyForm,
            errors   |-> v.newErrors,
            toasts   |-> Append(st.toasts, SuccessMessage)]
      ELSE [st EXCEPT !.formData = EmptyForm, !.errors = v.newErrors]

\* a mutant of handleSubmit: the toast is shown whether or not the form is valid
handleSubmitToastAlways(st) ==
  LET v == validateForm(st.formData)
  IN  IF v.result
      THEN [formData |-> EmptyForm,
            errors   |-> v.newErrors,
            toasts   |-> Append(st.toasts, SuccessMessage)]
      ELSE [st EXCEPT !.errors = v.newErrors,
                      !.toasts = Append(st.toasts, SuccessMessage)]

\* handleSubmit: validateForm() has called setErrors(newErrors) on either path
handleSubmit(st) ==
  LET v == validateForm(st.formData)
  IN  IF v.result
      THEN [formData |-> EmptyForm,
            errors   |-> v.newErrors,
            toasts   |-> Append(st.toasts, SuccessMessage)]
      ELSE [st EXCEPT !.errors = v.newErrors]

----------------------------------------------------------------------------
(* The values the controls of the form deliver *)

\* values typed into the name input
NameSamples == {<<>>, <<" ">>, <<"a">>}

\* values typed into the message textarea
MessageSamples == {<<>>, <<"a">>}

\* values typed into the e-mail input
EmailSamples ==
  { <<>>,
    <<"a">>,
    <<"a", "@", "a", ".", "a">>,
    <<"a", " ", "a", "@", "a", ".", "a">> }

\* values chosen in the subject select: the placeholder option and two of the
\* five options that carry a value
SubjectSamples ==
  { <<>>,
    <<"t", "o", "u", "r">>,
    <<"o", "t", "h", "e", "r">> }

\* the values the control called name can deliver
FieldValues(name) ==
  CASE name = "name"    -> NameSamples
    [] name = "email"   -> EmailSamples
    [] name = "subject" -> SubjectSamples
    [] name = "message" -> MessageSamples

----------------------------------------------------------------------------
(* The state machine *)

\* the component state the handlers read
Cur == [formData |-> formData, errors |-> errors, toasts |-> toasts]

\* the record of the event that led to the current state: the event and its
\* arguments, what validateForm returned, whether the edited field had a
\* message, whether the submit dropped a message of the submit before it, and
\* the event before this one
Event(op, field, value, valid, hadError, dropped) ==
  [op        |-> op,
   field     |-> field,
   value     |-> value,
   valid     |-> valid,
   hadError  |-> hadError,
   dropped   |-> dropped,
   prevOp    |-> last.op,
   prevValid |-> last.valid]

NoEvent ==
  [op        |-> "none",
   field     |-> "none",
   value     |-> <<>>,
   valid     |-> FALSE,
   hadError  |-> FALSE,
   dropped   |-> FALSE,
   prevOp    |-> "none",
   prevValid |-> FALSE]

\* the component right after it is mounted
Init ==
  /\ formData = EmptyForm
  /\ errors = EmptyErrors
  /\ toasts = <<>>
  /\ last = NoEvent
  /\ submitErrors = EmptyErrors
  /\ successes = 0

\* a change event of one of the four controls
OnFieldChange ==
  \E name \in Fields :
    \E value \in FieldValues(name) :
      LET st == handleChange(Cur, name, value)
      IN  /\ formData' = st.formData
          /\ errors' = st.errors
          /\ toasts' = st.toasts
          /\ last' = Event("change", name, value, FALSE, name \in DOMAIN errors, FALSE)
          /\ UNCHANGED <<submitErrors, successes>>

\* the submit event of the form
OnSubmit ==
  LET v  == validateForm(formData)
      st == handleSubmit(Cur)
  IN  /\ v.result => Len(toasts) < MaxToasts
      /\ formData' = st.formData
      /\ errors' = st.errors
      /\ toasts' = st.toasts
      /\ last' = Event("submit", "none", <<>>, v.result, FALSE,
                       (DOMAIN submitErrors) \ (DOMAIN v.newErrors) # {})
      /\ submitErrors' = v.newErrors
      /\ successes' = IF v.result THEN successes + 1 ELSE successes

Next == OnFieldChange \/ OnSubmit

Spec == Init /\ [][Next]_vars

----------------------------------------------------------------------------
(* validateForm on its own, over enumerated forms *)

AllRequired ==
  [name    |-> NameRequired,
   email   |-> EmailRequired,
   subject |-> SubjectRequired,
   message |-> MessageRequired]

\* every form whose name, subject and message have at most MaxTextLen
\* characters and whose e-mail is a sample or a lone space, with either no
\* message or every message left from before
InitValidate ==
  /\ formData \in [name    : Strings(TextChars, MaxTextLen),
                   email   : EmailSamples \cup {<<" ">>},
                   subject : Strings(TextChars, MaxTextLen),
                   message : Strings(TextChars, MaxTextLen)]
  /\ errors \in {EmptyErrors, AllRequired}
  /\ toasts = <<>>
  /\ last = NoEvent
  /\ submitErrors = EmptyErrors
  /\ successes = 0

\* every e-mail value of at most MaxEmailLen characters
InitEmail ==
  /\ formData \in [name    : {<<>>, <<"a">>},
                   email   : Strings(EmailChars, MaxEmailLen),
                   subject : {<<"t", "o", "u", "r">>},
                   message : {<<"a">>}]
  /\ errors = EmptyErrors
  /\ toasts = <<>>
  /\ last = NoEvent
  /\ submitErrors = EmptyErrors
  /\ successes = 0

\* one call of validateForm
Validate ==
  LET v == validateForm(formData)
  IN  /\ last.op = "none"
      /\ errors' = v.newErrors
      /\ last' = Event("validate", "none", <<>>, v.result, FALSE, FALSE)
      /\ UNCHANGED <<formData, toasts, submitErrors, successes>>

SpecValidate == InitValidate /\ [][Validate]_vars

SpecEmail == InitEmail /\ [][Validate]_vars

----------------------------------------------------------------------------
(* The rules of the fields, stated without trim and without the pattern matcher *)

\* s is empty or holds white space only
Blank(s) == \A i \in 1..Len(s) : IsSpace(s[i])

\* somewhere in s: a non-space character, "@", one or more non-space
\* characters, ".", a non-space character
ContainsEmailShape(s) ==
  \E p \in 1..Len(s) :
    \E q \in 1..Len(s) :
      /\ p >= 2
      /\ q >= p + 2
      /\ q < Len(s)
      /\ s[p] = "@"
      /\ s[q] = "."
      /\ ~IsSpace(s[p - 1])
      /\ ~IsSpace(s[q + 1])
      /\ \A k \in (p + 1)..(q - 1) : ~IsSpace(s[k])

\* the whole of s is: non-space characters, "@", non-space characters, ".",
\* non-space characters
IsEmailShape(s) ==
  /\ ContainsEmailShape(s)
  /\ \A i \in 1..Len(s) : ~IsSpace(s[i])

\* the message field f of fd must get, "" when it passes
ExpectedMessage(fd, f) ==
  CASE f = "name"    -> IF Blank(fd.name) THEN NameRequired ELSE ""
    [] f = "email"   -> IF Blank(fd.email) THEN EmailRequired
                        ELSE IF ~ContainsEmailShape(fd.email) THEN EmailNotValid
                        ELSE ""
    [] f = "subject" -> IF Blank(fd.subject) THEN SubjectRequired ELSE ""
    [] f = "message" -> IF Blank(fd.message) THEN MessageRequired ELSE ""

\* the map holding exactly the failing fields of fd, each with its message
ExpectedErrors(fd) ==
  [f \in {g \in Fields : ExpectedMessage(fd, g) # ""} |-> ExpectedMessage(fd, f)]

\* every field of fd passes its rule
AllPass(fd) == \A f \in Fields : ExpectedMessage(fd, f) = ""

----------------------------------------------------------------------------
(* validateForm *)

C2_EmailRuleContained ==
  last.op = "validate" =>
    /\ Blank(formData.email) =>
         "email" \in DOMAIN errors /\ errors["email"] = EmailRequired
    /\ ~Blank(formData.email) /\ ~ContainsEmailShape(formData.email) =>
         "email" \in DOMAIN errors /\ errors["email"] = EmailNotValid
    /\ ~Blank(formData.email) /\ ContainsEmailShape(formData.email) =>
         "email" \notin DOMAIN errors

\* "a a@a.a" is not of the shape as a whole and gets no message
C2_Witness ==
  /\ last.op = "validate"
  /\ formData.email = <<"a", " ", "a", "@", "a", ".", "a">>
  /\ "email" \notin DOMAIN errors

\* C2 (as stated): "Email is not valid" is given exactly to the non-blank
\* values that do not have the shape non-space+ "@" non-space+ "." non-space+
C2_EmailRuleWholeValue ==
  last.op = "validate" =>
    /\ Blank(formData.email) =>
         "email" \in DOMAIN errors /\ errors["email"] = EmailRequired
    /\ ~Blank(formData.email) /\ ~IsEmailShape(formData.email) =>
         "email" \in DOMAIN errors /\ errors["email"] = EmailNotValid
    /\ ~Blank(formData.email) /\ IsEmailShape(formData.email) =>
         "email" \notin DOMAIN errors

----------------------------------------------------------------------------
(* The submit handler *)

\* C3: a submit of a form whose four fields pass leaves all four fields
\* empty and no message, whatever messages were shown before it.
C3_ValidSubmitResets ==
  [][OnSubmit /\ AllPass(formData) =>
       /\ formData' = EmptyForm
       /\ errors' = EmptyErrors
       /\ \A e \in {EmptyErrors, AllRequired} :
            LET st == handleSubmit([Cur EXCEPT !.errors = e])
            IN  st.formData = EmptyForm /\ st.errors = EmptyErrors]_vars

\* the form was filled in by edits and the submit that followed was accepted
C3_Witness ==
  /\ last.op = "submit"
  /\ last.valid
  /\ last.prevOp = "change"
  /\ formData = EmptyForm
  /\ errors = EmptyErrors
  /\ Len(toasts) = 1

\* C4: a submit of a form with a failing field changes no field, shows no
\* toast, and replaces the messages by exactly those of the failing fields;
\* nothing of the messages shown before survives for a field that passes.
C4_InvalidSubmitReplacesErrors ==
  [][OnSubmit /\ ~AllPass(formData) =>
       /\ formData' = formData
       /\ toasts' = toasts
       /\ errors' = ExpectedErrors(formData)
       /\ handleSubmit([Cur EXCEPT !.errors = AllRequired]).errors
            = ExpectedErrors(formData)]_vars

\* a second rejected submit, after a field that failed at the first one was
\* corrected
C4_Witness ==
  /\ last.op = "submit"
  /\ ~last.valid
  /\ last.dropped
  /\ errors # EmptyErrors
  /\ DOMAIN errors # DOMAIN AllRequired

\* C5: the toasts shown are as many as the submits that found the form valid,
\* and each carries the success text; so no edit and no rejected submit shows
\* one.
C5_OneToastPerSuccess ==
  /\ Len(toasts) = successes
  /\ \A i \in 1..Len(toasts) : toasts[i] = SuccessMessage
  /\ (last.op = "submit" /\ last.valid) => Len(toasts) >= 1

\* an accepted submit, then edits, then a rejected submit: still one toast
C5_Witness ==
  /\ successes = 1
  /\ toasts = <<SuccessMessage>>
  /\ last.op = "submit"
  /\ ~last.valid
  /\ last.prevOp = "change"

C10_ResubmitAfterSuccessRejected ==
  [][OnSubmit /\ last.op = "submit" /\ last.valid =>
       /\ ~last'.valid
       /\ toasts' = toasts
       /\ formData' = EmptyForm
       /\ errors' = AllRequired]_vars

\* a rejected submit right after an accepted one
C10_Witness ==
  /\ last.op = "submit"
  /\ ~last.valid
  /\ last.prevOp = "submit"
  /\ last.prevValid
  /\ errors = AllRequired
  /\ Len(toasts) = 1

----------------------------------------------------------------------------
(* The edit handler *)

\* C6: an edit sets the edited field to the new value and removes that
\* field's message; the other fields and the other fields' messages are as
\* before, no message is added, and no toast is shown.
C6_EditFrame ==
  [][OnFieldChange =>
       /\ last'.field \in Fields
       /\ formData'[last'.field] = last'.value
       /\ last'.field \notin DOMAIN errors'
       /\ \A g \in Fields \ {last'.field} :
            /\ formData'[g] = formData[g]
            /\ g \in DOMAIN errors' <=> g \in DOMAIN errors
            /\ g \in DOMAIN errors => errors'[g] = errors[g]
       /\ toasts' = toasts]_vars

\* a field with a message was set to a blank value: its message is gone,
\* other messages remain
C6_Witness ==
  /\ last.op = "change"
  /\ last.hadError
  /\ Blank(last.value)
  /\ last.field \notin DOMAIN errors
  /\ errors # EmptyErrors

\* C7: every field with a message fails its rule for its present value, the
\* message is the one that rule gives, and the messages are among those
\* computed by the latest submit.
C7_ErrorsAreCurrentFailures ==
  \A f \in DOMAIN errors :
    /\ ExpectedMessage(formData, f) # ""
    /\ errors[f] = ExpectedMessage(formData, f)
    /\ f \in DOMAIN submitErrors
    /\ errors[f] = submitErrors[f]

\* after an edit, fewer messages than the latest submit computed
C7_Witness ==
  /\ last.op = "change"
  /\ errors # EmptyErrors
  /\ errors # submitErrors
  /\ ~AllPass(formData)
  /\ DOMAIN errors # {f \in Fields : ExpectedMessage(formData, f) # ""}

----------------------------------------------------------------------------
(* Recovery *)

\* the values of the control f that pass the rule of f
PassingValues(f) ==
  {v \in FieldValues(f) : ExpectedMessage([EmptyForm EXCEPT ![f] = v], f) = ""}

\* the orders in which the four fields are corrected
EditOrders ==
  { <<"name", "email", "subject", "message">>,
    <<"message", "subject", "email", "name">>,
    <<"email", "name", "message", "subject">> }

RECURSIVE EditAll(_, _, _)
\* st after the fields of order have been set, one edit each, to their values in fd
EditAll(st, order, fd) ==
  IF order = <<>> THEN st
  ELSE EditAll(handleChange(st, Head(order), fd[Head(order)]), Tail(order), fd)

\* C9: from every state, setting each of the four fields to a passing value
\* and then submitting is accepted: one more toast, the fields empty, no
\* message.
C9_AlwaysRecoverable ==
  \A fd \in [name    : PassingValues("name"),
             email   : PassingValues("email"),
             subject : PassingValues("subject"),
             message : PassingValues("message")] :
    \A order \in EditOrders :
      LET st == handleSubmit(EditAll(Cur, order, fd))
      IN  /\ st.formData = EmptyForm
          /\ st.errors = EmptyErrors
          /\ st.toasts = Append(toasts, SuccessMessage)

\* a submit was rejected with all four messages and the fields were then
\* corrected one by one: the last correction removed the last message
C9_Witness ==
  /\ last.op = "change"
  /\ last.hadError
  /\ submitErrors = AllRequired
  /\ errors = EmptyErrors
  /\ AllPass(formData)

====
